---- MODULE Spec2Model ----
(***************************************************************************)
(* Model of crates/oapi-macros/src/schema/mod.rs: the derive of ToSchema.  *)
(*                                                                         *)
(* Two phases are modelled.  At generation time ToSchema::try_to_tokens    *)
(* classifies a type definition, plans the symbol expression and the       *)
(* bounds, and appends one `impl ToSchema` to the output token stream.     *)
(* At schema-construction time the emitted `to_schema(components)` runs:   *)
(* it builds the schema, inserts it in components.schemas under the value  *)
(* of the symbol expression and returns a reference, or returns the schema *)
(* itself when no symbol expression was emitted.                           *)
(*                                                                         *)
(* Strings are sequences of one-character strings, so that replace,        *)
(* split_once and format! are computed character by character.             *)
(***************************************************************************)
EXTENDS Naturals, Sequences, FiniteSets

VARIABLES
    def,         \* the ToSchema value: data, attributes, ident, generics
    tokens,      \* the output TokenStream: the sequence of emitted impls
    result,      \* the DiagResult of the last try_to_tokens call
    ngen,        \* number of try_to_tokens calls made
    components,  \* the registry components.schemas: symbol -> RefOr<Schema>
    pc,          \* position of the running to_schema body
    cur,         \* the running to_schema: which impl, which instantiation
    schema,      \* the local `schema` of the running body
    before,      \* components.schemas as the caller passed it to to_schema
    ret,         \* the value the last to_schema call returned
    ncalls       \* number of to_schema calls started

vars == <<def, tokens, result, ngen, components, pc, cur, schema, before, ret, ncalls>>

----------------------------------------------------------------------------
(* Bounds *)

MaxGen == 2
MaxCalls == 3

----------------------------------------------------------------------------
(* Option<T> *)

None == [some |-> FALSE]
Some(x) == [some |-> TRUE, v |-> x]
IsSome(o) == o.some

----------------------------------------------------------------------------
(* Strings *)

\* str::replace: every non-overlapping match of pat, left to right.
RECURSIVE Replace(_, _, _)
Replace(s, pat, rep) ==
    IF Len(s) < Len(pat) THEN s
    ELSE IF SubSeq(s, 1, Len(pat)) = pat
         THEN rep \o Replace(SubSeq(s, Len(pat) + 1, Len(s)), pat, rep)
         ELSE <<Head(s)>> \o Replace(Tail(s), pat, rep)

Contains(s, ch) == \E i \in 1..Len(s) : s[i] = ch

\* str::split_once(ch): the text before and after the first ch, if any.
SplitOnce(s, ch) ==
    IF Contains(s, ch)
    THEN LET i == CHOOSE k \in 1..Len(s) :
                      s[k] = ch /\ \A j \in 1..(k - 1) : s[j] # ch
         IN  Some(<<SubSeq(s, 1, i - 1), SubSeq(s, i + 1, Len(s))>>)
    ELSE None

ColonColon == <<":", ":">>
SpacedColonColon == <<" ", ":", ":", " ">>
Dot == <<".">>
RefPrefix == <<"#", "/", "c", "o", "m", "p", "o", "n", "e", "n", "t", "s", "/",
               "s", "c", "h", "e", "m", "a", "s", "/">>

----------------------------------------------------------------------------
(* Inputs: the type definitions a derive can be applied to *)

Ident == <<"P">>
Crate == <<"k">>
Module == <<"m">>

\* The type a defaulted type parameter defaults to: struct P<T = u8>.
DefaultArg == <<"u", "8">>

\* One generic parameter: its kind, its name, whether it declares a default
\* (for a type parameter the default is DefaultArg).
TypeParam(dflt) == [kind |-> "type", name |-> "T", default |-> dflt]
ConstParam == [kind |-> "const", name |-> "N", default |-> FALSE]
LifetimeParam == [kind |-> "lifetime", name |-> "'a", default |-> FALSE]

GenericsChoices ==
    { <<>>, <<TypeParam(FALSE)>>, <<TypeParam(TRUE)>>, <<ConstParam>>,
      <<LifetimeParam>> }

DataKinds == {"named", "unnamed", "unit", "enum", "union"}

SymbolTexts ==
    { <<"N">>, <<"n", ":", ":", "N">>, <<"n", " ", ":", ":", " ", "N">> }

BoundTexts == {"T: Clone"}

OptionOf(S) == {None} \cup {Some(x) : x \in S}

\* What the caller passes to ToSchema::new.  parse_ok says whether the
\* annotations are well-formed, build_ok whether the fields can be rendered
\* by the shape builder.
TypeDefs ==
    [ data : DataKinds,
      ident : {Ident},
      generics : GenericsChoices,
      symbol : OptionOf(SymbolTexts),
      inline : OptionOf(BOOLEAN),
      bound : OptionOf(BoundTexts),
      skip_bound : OptionOf(BOOLEAN),
      parse_ok : BOOLEAN,
      build_ok : BOOLEAN ]

HasKind(generics, k) == \E i \in 1..Len(generics) : generics[i].kind = k

\* generics.type_params().next().is_none()
NoTypeParams(generics) == ~HasKind(generics, "type")

\* The arguments a type with these generics is instantiated with.  Every
\* lifetime argument is the erased lifetime '_ at run time.
Insts(generics) ==
    IF HasKind(generics, "type") THEN { <<"u", "8">>, <<"k", ":", ":", "X">> }
    ELSE IF HasKind(generics, "const") THEN { <<"1">>, <<"2">> }
    ELSE IF HasKind(generics, "lifetime") THEN { <<"'", "_">> }
    ELSE { <<>> }

\* The argument is the declared default of its parameter.
IsDefaultArg(generics, inst) ==
    \E i \in 1..Len(generics) :
        generics[i].kind = "type" /\ generics[i].default /\ inst = DefaultArg

\* std::any::type_name::<#ident #ty_generics>(): the crate and module path,
\* the name, and the arguments in angle brackets; an argument equal to the
\* declared default of its parameter is not printed.
TypeName(ident, generics, inst) ==
    Crate \o ColonColon \o Module \o ColonColon \o ident \o
    (IF generics # <<>> /\ ~IsDefaultArg(generics, inst)
     THEN <<"<">> \o inst \o <<">">>
     ELSE <<>>)

----------------------------------------------------------------------------
(* Generation time: SchemaVariant *)

Ok(x) == [ok |-> TRUE, v |-> x]
Err(msg) == [ok |-> FALSE, err |-> msg]

\* attributes.parse_features::<..>()?.into_inner()
ParseFeatures(d) ==
    IF d.parse_ok
    THEN Ok([symbol |-> d.symbol, inline |-> d.inline,
             bound |-> d.bound, skip_bound |-> d.skip_bound])
    ELSE Err("feature parse error")

\* EnumSchema::new(name, variants, attributes)
EnumSchema_new(d) ==
    LET f == ParseFeatures(d)
    IN  IF f.ok
        THEN Ok([kind |-> "enum", symbol |-> f.v.symbol, inline |-> f.v.inline,
                 bound |-> f.v.bound, skip_bound |-> f.v.skip_bound,
                 fields_ok |-> d.build_ok])
        ELSE f

UnitStructVariant ==
    [kind |-> "unit", symbol |-> None, inline |-> None, bound |-> None,
     skip_bound |-> None, fields_ok |-> TRUE]

\* Variation: Fields::Unit handled like a named struct with no fields.
SchemaVariant_new_UnitAsNamed(d) ==
    IF d.data \in {"named", "unnamed", "unit"}
    THEN LET f == ParseFeatures(d)
         IN  IF f.ok
             THEN Ok([kind |-> IF d.data = "unit" THEN "named" ELSE d.data,
                      symbol |-> f.v.symbol,
                      inline |-> f.v.inline, bound |-> f.v.bound,
                      skip_bound |-> f.v.skip_bound, fields_ok |-> d.build_ok])
             ELSE f
    ELSE IF d.data = "enum" THEN EnumSchema_new(d)
    ELSE Err("unexpected data type, expected syn::Data::Struct or syn::Data::Enum")

\* SchemaVariant::new: one variant per structural form, or a diagnostic.
SchemaVariant_new(d) ==
    IF d.data \in {"named", "unnamed"}
    THEN LET f == ParseFeatures(d)
         IN  IF f.ok
             THEN Ok([kind |-> d.data, symbol |-> f.v.symbol,
                      inline |-> f.v.inline, bound |-> f.v.bound,
                      skip_bound |-> f.v.skip_bound, fields_ok |-> d.build_ok])
             ELSE f
    ELSE IF d.data = "unit" THEN Ok(UnitStructVariant)
    ELSE IF d.data = "enum" THEN EnumSchema_new(d)
    ELSE Err("unexpected data type, expected syn::Data::Struct or syn::Data::Enum")

symbol(variant) ==
    IF variant.kind \in {"enum", "named", "unnamed"} THEN variant.symbol ELSE None

inline(variant) ==
    IF variant.kind \in {"enum", "named", "unnamed"} THEN variant.inline ELSE None

\* pop_*: the popped feature and the variant without it.
pop_skip_bound(variant) ==
    IF variant.kind \in {"enum", "named", "unnamed"}
    THEN [val |-> variant.skip_bound, rest |-> [variant EXCEPT !.skip_bound = None]]
    ELSE [val |-> None, rest |-> variant]

pop_bound(variant) ==
    IF variant.kind \in {"enum", "named", "unnamed"}
    THEN [val |-> variant.bound, rest |-> [variant EXCEPT !.bound = None]]
    ELSE [val |-> None, rest |-> variant]

\* UnitStructVariant::to_tokens: the expression `schema::empty()`.
UnitStructVariant_to_tokens == [kind |-> "unit"]

\* SchemaVariant::try_to_tokens: the schema-construction expression of the
\* shape builder, or its diagnostic.
SchemaVariant_try_to_tokens(variant) ==
    IF variant.kind = "unit" THEN Ok(UnitStructVariant_to_tokens)
    ELSE IF variant.fields_ok THEN Ok([kind |-> variant.kind])
    ELSE Err("shape builder error")

----------------------------------------------------------------------------
(* Generation time: bounds (crate::bound) *)

\* A Generics value: the parameters and the where-clause predicates.
DeclaredGenerics(d) == [params |-> d.generics, where |-> <<>>]

\* bound::without_defaults: the parameters with their defaults stripped.
without_defaults(generics) ==
    [generics EXCEPT !.params =
        [i \in 1..Len(generics.params) |->
            [generics.params[i] EXCEPT !.default = FALSE]]]

\* bound::with_where_predicates: the explicit text joins the where-clause.
with_where_predicates(generics, predicates) ==
    [generics EXCEPT !.where = Append(generics.where, <<predicates>>)]

DefaultBound == "ToSchema + 'static"

RECURSIVE DefaultPredicates(_, _)
DefaultPredicates(params, bnd) ==
    IF params = <<>> THEN <<>>
    ELSE (IF Head(params).kind = "type"
          THEN <<<<Head(params).name, bnd>>>> ELSE <<>>)
         \o DefaultPredicates(Tail(params), bnd)

\* bound::with_bound: `T: bound` for the type parameters of the definition.
with_bound(generics, bnd) ==
    [generics EXCEPT !.where = generics.where \o DefaultPredicates(generics.params, bnd)]

----------------------------------------------------------------------------
(* Generation time: ToSchema::try_to_tokens *)

\* Variation: the presence of Inline is taken for its value.
InlineFlag_Presence(variant) == IsSome(inline(variant))

\* let inline = variant.inline().as_ref().map(|i| i.0).unwrap_or(false);
InlineFlag(variant) ==
    IF IsSome(inline(variant)) THEN inline(variant).v ELSE FALSE

\* The symbol expression emitted into the body, if any.
\*   literal:   #symbol.to_string().replace(" :: ", ".")
\*   spliced:   type_name split at '<' and spliced onto #symbol
\*   type_name: type_name::<..>().replace("::", ".")
SymbolPlan(generics, variant) ==
    IF InlineFlag(variant) THEN None
    ELSE IF IsSome(symbol(variant))
         THEN IF NoTypeParams(generics)
              THEN Some([kind |-> "literal", s |-> symbol(variant).v])
              ELSE Some([kind |-> "spliced", s |-> symbol(variant).v])
         ELSE Some([kind |-> "type_name", s |-> <<>>])

IsSkip(skip_bound) == IsSome(skip_bound) /\ skip_bound.v = TRUE

\* Variation: an explicit Bound is looked at before SkipBound.
BoundPlan_BoundFirst(declared, variant) ==
    LET b == pop_bound(variant)
        sb == pop_skip_bound(b.rest)
        generics == without_defaults(declared)
    IN  IF IsSome(b.val) THEN with_where_predicates(generics, b.val.v)
        ELSE IF IsSkip(sb.val) THEN generics
        ELSE with_bound(generics, DefaultBound)

\* The generics of the emitted impl: skip_bound is popped and looked at
\* first, bound is popped only when skip_bound is not Some(SkipBound(true)).
BoundPlan(declared, variant) ==
    LET sb == pop_skip_bound(variant)
        bound == IF IsSkip(sb.val) THEN None ELSE pop_bound(sb.rest).val
        generics == without_defaults(declared)
    IN  IF ~IsSkip(sb.val)
        THEN IF IsSome(bound)
             THEN with_where_predicates(generics, bound.v)
             ELSE with_bound(generics, DefaultBound)
        ELSE generics

\* The variant as the pops leave it, handed to the shape builder.
AfterPops(variant) ==
    LET sb == pop_skip_bound(variant)
    IN  IF IsSkip(sb.val) THEN sb.rest ELSE pop_bound(sb.rest).rest

\* The body of the emitted to_schema.
Body(sym, variant_tokens) ==
    IF ~IsSome(sym)
    THEN [kind |-> "direct", variant |-> variant_tokens]
    ELSE [kind |-> "register", variant |-> variant_tokens, symbol |-> sym.v]

\* Variation: the impl is written to the stream before the shape builder
\* has reported its result.
try_to_tokens_PartialOutput(d, toks) ==
    LET created == SchemaVariant_new(d)
    IN  IF ~created.ok THEN [result |-> created, tokens |-> toks]
        ELSE
        LET variant == created.v
            sym == SymbolPlan(d.generics, variant)
            generics == BoundPlan(DeclaredGenerics(d), variant)
            variant_tokens == SchemaVariant_try_to_tokens(AfterPops(variant))
            out == Append(toks,
                      [ident |-> d.ident,
                       ty_generics |-> d.generics,
                       impl_generics |-> generics.params,
                       where_clause |-> generics.where,
                       body |-> Body(sym, [kind |-> variant.kind])])
        IN  IF ~variant_tokens.ok THEN [result |-> variant_tokens, tokens |-> out]
            ELSE [result |-> Ok("()"), tokens |-> out]

\* ToSchema::try_to_tokens(&self, tokens): the result and the token stream.
try_to_tokens(d, toks) ==
    LET created == SchemaVariant_new(d)
    IN  IF ~created.ok THEN [result |-> created, tokens |-> toks]
        ELSE
        LET variant == created.v
            sym == SymbolPlan(d.generics, variant)
            generics == BoundPlan(DeclaredGenerics(d), variant)
            variant_tokens == SchemaVariant_try_to_tokens(AfterPops(variant))
        IN  IF ~variant_tokens.ok THEN [result |-> variant_tokens, tokens |-> toks]
            ELSE [result |-> Ok("()"),
                  tokens |-> Append(toks,
                      [ident |-> d.ident,
                       ty_generics |-> d.generics,
                       impl_generics |-> generics.params,
                       where_clause |-> generics.where,
                       body |-> Body(sym, variant_tokens.v)])]

----------------------------------------------------------------------------
(* Schema-construction time: the emitted to_schema(components) *)

\* oapi::schema::empty()
EmptySchema == [kind |-> "empty", of |-> <<>>]

\* The value of the shape builder's expression for one instantiation.
BuildSchema(impl, inst) ==
    IF impl.body.variant.kind = "unit" THEN EmptySchema
    ELSE [kind |-> impl.body.variant.kind,
          of |-> TypeName(impl.ident, impl.ty_generics, inst)]

\* #symbol.to_string().replace(" :: ", ".")
LiteralSymbol(s) == Replace(s, SpacedColonColon, Dot)

\* if let Some((_, args)) = full_name.split_once('<')
\*     { format!("{}<{}", #symbol, args) } else { full_name.into() }
SplicedSymbol(s, full_name) ==
    LET parts == SplitOnce(full_name, "<")
    IN  IF IsSome(parts) THEN s \o <<"<">> \o parts.v[2] ELSE full_name

\* Variation: the pattern of the override branch, " :: ", is used.
TypeNameSymbol_Spaced(full_name) == Replace(full_name, SpacedColonColon, Dot)

\* std::any::type_name::<..>().replace("::", ".")
TypeNameSymbol(full_name) == Replace(full_name, ColonColon, Dot)

\* The value of the emitted symbol expression.
EvalSymbol(impl, inst) ==
    LET e == impl.body.symbol
        full_name == TypeName(impl.ident, impl.ty_generics, inst)
    IN  IF e.kind = "literal" THEN LiteralSymbol(e.s)
        ELSE IF e.kind = "spliced" THEN SplicedSymbol(e.s, full_name)
        ELSE TypeNameSymbol(full_name)

\* RefOr<Schema>
RefOr_T(sch) == [tag |-> "T", schema |-> sch]
RefOr_Ref(path) == [tag |-> "Ref", path |-> path]

\* Schemas::insert(key, value): overwrite semantics.
Schemas_insert(schemas, key, value) ==
    [k \in DOMAIN schemas \cup {key} |-> IF k = key THEN value ELSE schemas[k]]

\* Variation: an existing entry is kept (entry().or_insert()).
InsertStep_IfAbsent(impl, inst, schemas, sch) ==
    IF EvalSymbol(impl, inst) \in DOMAIN schemas THEN schemas
    ELSE Schemas_insert(schemas, EvalSymbol(impl, inst), RefOr_T(sch))

\* components.schemas.insert(#symbol, schema.into());
InsertStep(impl, inst, schemas, sch) ==
    Schemas_insert(schemas, EvalSymbol(impl, inst), RefOr_T(sch))

\* Variation: the reference names the runtime name as it is, while the
\* insert uses the symbol.
ReturnStep_RawName(impl, inst, sch) ==
    IF impl.body.kind = "direct" THEN RefOr_T(sch)
    ELSE RefOr_Ref(RefPrefix \o TypeName(impl.ident, impl.ty_generics, inst))

\* The value the body returns.
ReturnStep(impl, inst, sch) ==
    IF impl.body.kind = "direct" THEN RefOr_T(sch)
    ELSE RefOr_Ref(RefPrefix \o EvalSymbol(impl, inst))

\* One whole run of to_schema on a registry: the registry and the value.
ToSchemaRun(impl, inst, schemas) ==
    LET sch == BuildSchema(impl, inst)
    IN  [schemas |-> IF impl.body.kind = "register"
                     THEN InsertStep(impl, inst, schemas, sch) ELSE schemas,
         ret |-> ReturnStep(impl, inst, sch)]

----------------------------------------------------------------------------
(* The state machine *)

EmptySchemas == [k \in {} |-> None]
NoCall == [active |-> FALSE]
NoSchema == [kind |-> "unset", of |-> <<>>]
NoRet == [tag |-> "none"]
NoResult == [ok |-> TRUE, v |-> "not run"]

\* An impl emitted earlier into the same token stream, for another type.
PriorDef ==
    [data |-> "named", ident |-> <<"Q">>, generics |-> <<>>, symbol |-> None,
     inline |-> None, bound |-> None, skip_bound |-> None,
     parse_ok |-> TRUE, build_ok |-> TRUE]
PriorTokens == try_to_tokens(PriorDef, <<>>).tokens

\* ToSchema::new(data, attributes, ident, generics)
Init ==
    /\ def \in TypeDefs
    /\ tokens \in {<<>>, PriorTokens}
    /\ result = NoResult
    /\ ngen = 0
    /\ components = EmptySchemas
    /\ pc = "idle"
    /\ cur = NoCall
    /\ schema = NoSchema
    /\ before = EmptySchemas
    /\ ret = NoRet
    /\ ncalls = 0

\* The derive runs try_to_tokens on the output stream.
Derive ==
    /\ pc = "idle" /\ ncalls = 0 /\ ngen < MaxGen
    /\ LET r == try_to_tokens(def, tokens)
       IN  /\ tokens' = r.tokens
           /\ result' = r.result
    /\ ngen' = ngen + 1
    /\ UNCHANGED <<def, components, pc, cur, schema, before, ret, ncalls>>

\* to_schema is called on an instantiation; the body evaluates #variant.
Build ==
    /\ pc = "idle" /\ ncalls < MaxCalls
    /\ \E i \in 1..Len(tokens) : \E inst \in Insts(tokens[i].ty_generics) :
          /\ cur' = [active |-> TRUE, impl |-> tokens[i], inst |-> inst]
          /\ schema' = BuildSchema(tokens[i], inst)
    /\ before' = components
    /\ ret' = NoRet
    /\ pc' = "built"
    /\ ncalls' = ncalls + 1
    /\ UNCHANGED <<def, tokens, result, ngen, components>>

\* components.schemas.insert(#symbol, schema.into());
Insert ==
    /\ pc = "built" /\ cur.impl.body.kind = "register"
    /\ components' = InsertStep(cur.impl, cur.inst, components, schema)
    /\ pc' = "inserted"
    /\ UNCHANGED <<def, tokens, result, ngen, cur, schema, before, ret, ncalls>>

\* The body's final expression: the reference, or the schema itself.
Return ==
    /\ \/ pc = "built" /\ cur.impl.body.kind = "direct"
       \/ pc = "inserted"
    /\ ret' = ReturnStep(cur.impl, cur.inst, schema)
    /\ pc' = "idle"
    /\ UNCHANGED <<def, tokens, result, ngen, components, cur, schema, before, ncalls>>

Next == Derive \/ Build \/ Insert \/ Return

Spec == Init /\ [][Next]_vars

----------------------------------------------------------------------------
(* Vocabulary of the claims *)

\* The last to_schema call has returned.
Returned == pc = "idle" /\ cur.active /\ ret # NoRet

\* The running (or last) call is on the impl derived for def.
Own == cur.active /\ cur.impl.ident = def.ident

\* The shapes that carry features: symbol, inline, bound, skip_bound.
Shaped == def.data \in {"named", "unnamed", "enum"}

IsTrue(o) == IsSome(o) /\ o.v = TRUE

\* schemas is `from` with sch inserted under key and nothing else changed.
InsertedInto(schemas, from, key, sch) ==
    /\ DOMAIN schemas = DOMAIN from \cup {key}
    /\ schemas[key] = RefOr_T(sch)
    /\ \A k \in DOMAIN from \ {key} : schemas[k] = from[k]

\* The runtime name of P with `::` written `.`, spelled out per instantiation.
DottedName(generics, inst) ==
    <<"k", ".", "m", ".", "P">> \o
    (IF inst = <<"u", "8">>
     THEN (IF generics = <<TypeParam(TRUE)>> THEN <<>> ELSE <<"<", "u", "8", ">">>)
     ELSE IF inst = <<"k", ":", ":", "X">> THEN <<"<", "k", ".", "X", ">">>
     ELSE IF inst = <<"'", "_">> THEN <<"<", "'", "_", ">">>
     ELSE IF inst = <<"1">> THEN <<"<", "1", ">">>
     ELSE IF inst = <<"2">> THEN <<"<", "2", ">">>
     ELSE <<>>)

----------------------------------------------------------------------------
(* C1 *)

\* C1 as stated: for a unit struct, whatever its annotations, to_schema
\* returns the empty schema directly and leaves the registry unchanged.
C1_UnitReturnsEmptyDirectly ==
    (Returned /\ Own /\ def.data = "unit")
        => (ret = RefOr_T(EmptySchema) /\ components = before)

\* C1 amended: for a unit struct, whatever its annotations, to_schema builds
\* the fixed empty schema, inserts it under the runtime type name with `::`
\* replaced by `.`, changes no other entry, and returns a reference to it.
C1_UnitRegistersEmpty ==
    (Returned /\ Own /\ def.data = "unit")
        => LET key == DottedName(def.generics, cur.inst)
           IN  /\ schema = EmptySchema
               /\ ret = RefOr_Ref(RefPrefix \o key)
               /\ InsertedInto(components, before, key, EmptySchema)

C1_Witness ==
    /\ Returned /\ Own /\ def.data = "unit"
    /\ IsTrue(def.inline) /\ IsSome(def.symbol)
    /\ ret.tag = "Ref" /\ before # EmptySchemas

----------------------------------------------------------------------------
(* C2 *)

\* The Inline feature of the shape is present and true.
DefInline == Shaped /\ IsTrue(def.inline)

\* C2: a type that is not inline never hands back a reference before the
\* referent is registered: nothing is returned while the body is building
\* or inserting, the insert precedes the return, and at the return the
\* registry holds the built schema under exactly the name of the returned
\* path "#/components/schemas/" + symbol.
C2_RefAfterInsert ==
    /\ (pc \in {"built", "inserted"}) => ret = NoRet
    /\ (pc = "inserted") => \E key \in DOMAIN components :
                                components[key] = RefOr_T(schema)
    /\ (Returned /\ Own /\ ~DefInline) => ret.tag = "Ref"
    /\ (Returned /\ ret.tag = "Ref")
           => /\ Len(ret.path) >= Len(RefPrefix)
              /\ SubSeq(ret.path, 1, Len(RefPrefix)) = RefPrefix
              /\ LET name == SubSeq(ret.path, Len(RefPrefix) + 1, Len(ret.path))
                 IN  /\ name \in DOMAIN components
                     /\ components[name] = RefOr_T(schema)

C2_Witness ==
    /\ Returned /\ Own /\ ~DefInline /\ ret.tag = "Ref"
    /\ IsSome(def.symbol) /\ HasKind(def.generics, "type")

----------------------------------------------------------------------------
(* C3 *)

\* C3 as stated: for a non-generic, non-inline type with symbol override S
\* the computed symbol is S with every `::` replaced by `.`.
C3_OverrideColonsReplaced ==
    (Returned /\ Own /\ Shaped /\ ~DefInline
        /\ IsSome(def.symbol) /\ def.generics = <<>>)
        => ret = RefOr_Ref(RefPrefix \o Replace(def.symbol.v, ColonColon, Dot))

----------------------------------------------------------------------------
(* C4 *)

\* Inputs of the splice: a runtime name, and the text after its first `<`
\* (None when it has no `<`).
SpliceCases ==
    { <<Crate \o ColonColon \o Module \o ColonColon \o Ident, None>>,
      <<Ident, None>>,
      <<Crate \o ColonColon \o Module \o ColonColon \o Ident \o <<"<", "u", "8", ">">>,
        Some(<<"u", "8", ">">>)>>,
      <<Ident \o <<"<", "Q", "<", "u", "8", ">", ">">>, Some(<<"Q", "<", "u", "8", ">", ">">>)>> }

\* C4 as stated: for a non-inline generic type with symbol override S, a
\* runtime name with a "<" gives the symbol S + "<" + the text after the
\* first "<" (P<T> with symbol N instantiated as P<u8> registers under
\* "N<u8>" and returns "#/components/schemas/N<u8>"), two distinct
\* instantiations get different symbols, and a runtime name without "<" is
\* the symbol as it is.
C4_GenericSymbolSpliced ==
    (Returned /\ Own /\ Shaped /\ ~DefInline /\ IsSome(def.symbol)
        /\ def.generics # <<>>)
        => LET S == def.symbol.v
               full_name == TypeName(def.ident, def.generics, cur.inst)
               key == IF Contains(full_name, "<")
                      THEN S \o <<"<">> \o SplitOnce(full_name, "<").v[2]
                      ELSE full_name
           IN  /\ ret = RefOr_Ref(RefPrefix \o key)
               /\ key \in DOMAIN components
               /\ components[key] = RefOr_T(schema)
               /\ \A i, j \in Insts(def.generics) :
                     i # j => EvalSymbol(cur.impl, i) # EvalSymbol(cur.impl, j)
               /\ \A c \in SpliceCases :
                     SplicedSymbol(S, c[1]) =
                         IF IsSome(c[2]) THEN S \o <<"<">> \o c[2].v ELSE c[1]

----------------------------------------------------------------------------
(* C5 *)

\* C5 as stated: for a non-inline type with generic parameters of any kind
\* and a symbol override, distinct instantiations register under distinct
\* symbols, so a call never replaces the entry of another instantiation.
C5_DistinctPerInstantiation ==
    (Returned /\ Own /\ Shaped /\ ~DefInline
        /\ IsSome(def.symbol) /\ def.generics # <<>>)
        => /\ \A j \in Insts(def.generics) \ {cur.inst} :
                 EvalSymbol(cur.impl, j) # EvalSymbol(cur.impl, cur.inst)
           /\ \A k \in DOMAIN before : components[k] = before[k]

----------------------------------------------------------------------------
(* C6 *)

\* C6: with no symbol override and no inline flag set, the symbol is the
\* runtime name with every `::` replaced by `.`; the schema is registered
\* under it and a reference to it is returned.
C6_TypeNameSymbol ==
    (Returned /\ Own /\ ~IsSome(def.symbol) /\ ~IsTrue(def.inline))
        => LET key == DottedName(def.generics, cur.inst)
           IN  /\ ret = RefOr_Ref(RefPrefix \o key)
               /\ InsertedInto(components, before, key, schema)

C6_Witness ==
    /\ Returned /\ Own /\ ~IsSome(def.symbol) /\ ~IsSome(def.inline)
    /\ def.data = "named" /\ cur.inst = <<"k", ":", ":", "X">>
    /\ <<"k", ".", "m", ".", "P", "<", "k", ".", "X", ">">> \in DOMAIN components

----------------------------------------------------------------------------
(* C7 *)

\* C7: when the shape's Inline feature is present and true, also with a
\* Symbol override, no symbol expression is emitted, the body never
\* inserts, and to_schema returns the built schema itself with the
\* registry unchanged; an absent or false Inline never suppresses
\* registration.
C7_InlineReturnsSchema ==
    /\ (Own /\ DefInline)
           => /\ cur.impl.body.kind = "direct"
              /\ pc # "inserted"
              /\ components = before
              /\ Returned => ret = RefOr_T(schema)
    /\ (Own /\ Returned /\ Shaped /\ ~IsTrue(def.inline))
           => /\ cur.impl.body.kind = "register"
              /\ ret.tag = "Ref"
              /\ \E key \in DOMAIN components :
                    InsertedInto(components, before, key, schema)

C7_Witness ==
    /\ Returned /\ Own /\ DefInline /\ IsSome(def.symbol)
    /\ ret = RefOr_T(schema) /\ before # EmptySchemas

----------------------------------------------------------------------------
(* C8 *)

\* The impls emitted for def.
OwnImpls == { i \in 1..Len(tokens) : tokens[i].ident = def.ident }

\* C8: SkipBound is looked at strictly before Bound.  With SkipBound true
\* the where-clause gets nothing, Bound text included; otherwise an explicit
\* Bound is attached as it is; otherwise the default ToSchema + 'static
\* constraint is attached to the type parameters.
C8_BoundPrecedence ==
    \A i \in OwnImpls :
        Shaped =>
            IF IsTrue(def.skip_bound)
            THEN tokens[i].where_clause = <<>>
            ELSE IF IsSome(def.bound)
                 THEN tokens[i].where_clause = << <<def.bound.v>> >>
                 ELSE tokens[i].where_clause =
                          IF HasKind(def.generics, "type")
                          THEN << <<"T", "ToSchema + 'static">> >>
                          ELSE <<>>

C8_Witness ==
    /\ OwnImpls # {} /\ Shaped
    /\ IsTrue(def.skip_bound) /\ IsSome(def.bound)
    /\ HasKind(def.generics, "type")
    /\ \A i \in OwnImpls : tokens[i].where_clause = <<>>

----------------------------------------------------------------------------
(* C9 *)

\* Generation of def fails: unsupported structural form, malformed
\* annotations, or a shape builder error.
GenerationFails ==
    \/ def.data = "union"
    \/ Shaped /\ (~def.parse_ok \/ ~def.build_ok)

\* C9: a try_to_tokens call that fails returns the error and leaves the
\* token stream as it was; a call that succeeds appends exactly one impl,
\* the one of the type, after what the stream already held.
C9_AllOrNothing ==
    [][ (ngen' = ngen + 1) =>
          IF GenerationFails
          THEN /\ ~result'.ok
               /\ tokens' = tokens
               /\ (def.data = "union") =>
                     result'.err = "unexpected data type, expected syn::Data::Struct or syn::Data::Enum"
          ELSE /\ result' = Ok("()")
               /\ Len(tokens') = Len(tokens) + 1
               /\ SubSeq(tokens', 1, Len(tokens)) = tokens
               /\ tokens'[Len(tokens')].ident = def.ident ]_vars

C9_Witness ==
    /\ ngen >= 1 /\ ~result.ok /\ tokens = PriorTokens
    /\ Shaped /\ def.parse_ok /\ ~def.build_ok

----------------------------------------------------------------------------
(* C10 *)

\* C10: registration is idempotent and last-write-wins.  Running to_schema
\* of a named type a second time on the registry the first run left gives
\* the same registry and the same reference; the insert puts the newly
\* built schema under the symbol, replacing what was there, and changes no
\* other key.
C10_IdempotentOverwrite ==
    (cur.active /\ cur.impl.body.kind = "register" /\ pc \in {"inserted", "idle"})
        => LET key == EvalSymbol(cur.impl, cur.inst)
               again == ToSchemaRun(cur.impl, cur.inst, components)
           IN  /\ InsertedInto(components, before, key, schema)
               /\ (key \in DOMAIN before /\ before[key] = RefOr_T(schema))
                      => components = before
               /\ Returned => /\ ret.tag = "Ref"
                               /\ again.schemas = components
                               /\ again.ret = ret

C10_Witness ==
    /\ Returned /\ ret.tag = "Ref"
    /\ EvalSymbol(cur.impl, cur.inst) \in DOMAIN before
    /\ components = before
    /\ Cardinality(DOMAIN components) >= 2

====
